---- MODULE Spec2Model ----
(***************************************************************************)
(* My_Jet: the booking backend of src/Backend_With_Frontend.                *)
(*                                                                         *)
(* The state is the two MongoDB collections of database.py, the store      *)
(* operations that a handler started without awaiting them (motor hands     *)
(* every operation to its executor when it is called; only an awaited one   *)
(* is finished before the coroutine goes on), the tokens handed out by the  *)
(* login endpoint, the clock, the answer to the last request, and the       *)
(* handler coroutines that are suspended at an await.                       *)
(*                                                                         *)
(* A collection is a sequence of documents in insertion order: find_one,    *)
(* update_one and delete_one act on the first document matching the filter, *)
(* and a collection may hold equal documents.  Of a user document the       *)
(* fields birth_date, sex and full_name are left out: no handler reads      *)
(* them.                                                                    *)
(*                                                                         *)
(* Spec is the booking application at a fixed clock reading;                *)
(* SpecRegistration is registration, login and account deletion with        *)
(* several inserts pending; SpecSession is the token service with the       *)
(* clock.  In these three a handler runs from its request to its answer in  *)
(* one step.  In SpecConcurrent and SpecConcurrentRegistration a handler    *)
(* gives way at each awaited store operation, and the steps of several      *)
(* requests interleave.  SpecExpiry is the booking application of one user  *)
(* with the clock; SpecFailure is Spec with a delete-account whose          *)
(* user-record deletion fails.                                              *)
(***************************************************************************)
EXTENDS Integers, Sequences, FiniteSets, Bags, TLC

VARIABLES user_collection, ticket_collection, inflight_insert, inflight_inc,
          tokens, now, last, running

vars == <<user_collection, ticket_collection, inflight_insert, inflight_inc,
          tokens, now, last, running>>

----------------------------------------------------------------------------
(* Input domains and bounds *)

LoginIds == {"alice", "bob"}

Emails == {"a@x.com", "b@x.com"}

Passwords == {"pw"}

WrongPassword == "guess"

Origins == {"SEA"}

Destinations == {"SEA", "LAX"}

Dates == {"2024-06-01", "2024-06-02"}

JetTypes == {"G650"}

MaxTickets == 2

MaxInflight == 1

MaxDebt == 1

MaxCredit == 2

ACCESS_TOKEN_EXPIRE_MINUTES == 10

HTTP_302_FOUND == 302

HTTP_401_UNAUTHORIZED == 401

HTTP_404_NOT_FOUND == 404

HTTP_409_CONFLICT == 409

----------------------------------------------------------------------------
(* The document store: pymongo/motor operations as the code calls them *)

None == <<>>

Matches(doc, query) == \A k \in DOMAIN query : doc[k] = query[k]

find(coll, query) == SelectSeq(coll, LAMBDA d : Matches(d, query))

RECURSIVE first_from(_, _, _)
first_from(coll, query, i) ==
    IF i > Len(coll) THEN 0
    ELSE IF Matches(coll[i], query) THEN i
    ELSE first_from(coll, query, i + 1)

first_match(coll, query) == first_from(coll, query, 1)

find_one(coll, query) ==
    LET i == first_match(coll, query)
    IN  IF i = 0 THEN None ELSE <<coll[i]>>

insert_one(coll, doc) == Append(coll, doc)

delete_one(coll, query) ==
    LET i == first_match(coll, query)
    IN  IF i = 0 THEN coll
        ELSE SubSeq(coll, 1, i - 1) \o SubSeq(coll, i + 1, Len(coll))

delete_many(coll, query) == SelectSeq(coll, LAMBDA d : ~Matches(d, query))

(* Mutant: the $inc writes the delta over the stored mileage. *)
update_one_inc_overwriting(coll, query, delta) ==
    LET i == first_match(coll, query)
    IN  IF i = 0 THEN coll
        ELSE [coll EXCEPT ![i].mileage = delta]

update_one_inc(coll, query, delta) ==
    LET i == first_match(coll, query)
    IN  IF i = 0 THEN coll
        ELSE [coll EXCEPT ![i].mileage = @ + delta]

update_one_set(coll, query, value) ==
    LET i == first_match(coll, query)
    IN  IF i = 0 THEN coll
        ELSE [coll EXCEPT ![i].mileage = value]

----------------------------------------------------------------------------
(* auth.py *)

get_hashed_password(password) == <<"bcrypt", password>>

check_password(password, hashed_password) ==
    hashed_password = get_hashed_password(password)

get_user_by_login_id(users, user_login_id) ==
    find_one(users, [login_id |-> user_login_id])

(* Mutant: the password is not checked. *)
authenticate_user_any_password(users, user_login_id, user_password) ==
    get_user_by_login_id(users, user_login_id)

authenticate_user(users, user_login_id, user_password) ==
    LET user == get_user_by_login_id(users, user_login_id)
    IN  IF user = None THEN None
        ELSE IF ~check_password(user_password, user[1].hashed_password) THEN None
        ELSE user

(* expires_delta is None or <<minutes>>; a timedelta of zero is falsy. *)
create_access_token(sub, expires_delta, utcnow) ==
    [sub |-> <<sub>>,
     exp |-> IF expires_delta # None /\ expires_delta[1] # 0
             THEN utcnow + expires_delta[1]
             ELSE utcnow + 15,
     sig |-> "HS256:SECRET_KEY"]

(* Mutant: the signature is not verified. *)
jwt_decode_unverified(token, utcnow) ==
    IF token.exp < utcnow THEN "ExpiredSignatureError" ELSE "payload"

(* Mutant: the exp claim is not verified. *)
jwt_decode_any_time(token, utcnow) ==
    IF token.sig # "HS256:SECRET_KEY" THEN "JWTError" ELSE "payload"

(* jwt.decode: the signature, then the exp claim (expired when exp < now). *)
jwt_decode(token, utcnow) ==
    IF token.sig # "HS256:SECRET_KEY" THEN "JWTError"
    ELSE IF token.exp < utcnow THEN "ExpiredSignatureError"
    ELSE "payload"

(* token.replace("Bearer ", ""): the cookie value without its scheme. *)
strip_bearer(cookie) == cookie.jwt

(* Mutant: the user named by the token is not looked up. *)
get_current_user_by_token_unstored(users, cookie, utcnow) ==
    LET token == strip_bearer(cookie)
    IN  IF jwt_decode(token, utcnow) # "payload" THEN None
        ELSE IF token.sub = None THEN None
        ELSE <<[login_id |-> token.sub[1], email |-> "-",
                hashed_password |-> <<"bcrypt", "-">>, mileage |-> 0]>>

(* The user document in a one-element sequence, or None for the 401. *)
get_current_user_by_token(users, cookie, utcnow) ==
    LET token == strip_bearer(cookie)
    IN  IF jwt_decode(token, utcnow) # "payload" THEN None
        ELSE IF token.sub = None THEN None
        ELSE get_user_by_login_id(users, token.sub[1])

credential_exception ==
    [status_code |-> HTTP_401_UNAUTHORIZED,
     detail |-> "couldn't validate credentials"]

(* What get_current_user_by_token raises: None when it returns a user. *)
get_current_user_by_token_raises(users, cookie, utcnow) ==
    IF get_current_user_by_token(users, cookie, utcnow) = None
    THEN <<credential_exception>>
    ELSE None

----------------------------------------------------------------------------
(* models.py *)

(* Mutant: a new user starts with one reward. *)
UserInDB_rewarded(login_id, email, hashed_password) ==
    [login_id |-> login_id, email |-> email,
     hashed_password |-> hashed_password, mileage |-> 100]

UserInDB(login_id, email, hashed_password) ==
    [login_id |-> login_id, email |-> email,
     hashed_password |-> hashed_password, mileage |-> 0]

TicketInDB(new_ticket, owner_login_id) ==
    [starting_point |-> new_ticket.starting_point,
     ending_point |-> new_ticket.ending_point,
     departure_date |-> new_ticket.departure_date,
     jet_type |-> new_ticket.jet_type,
     owner_login_id |-> owner_login_id]

----------------------------------------------------------------------------
(* crud.py *)

is_duplicate_login_id(users, user_login_id) ==
    find_one(users, [login_id |-> user_login_id]) # None

(* Mutant: the lookup result is not used. *)
is_duplicate_email_never(users, user_email) == FALSE

is_duplicate_email(users, user_email) ==
    find_one(users, [email |-> user_email]) # None

(* The message returned, and the insert_one handed to the store unawaited. *)
create_user(users, new_user) ==
    IF is_duplicate_login_id(users, new_user.login_id)
    THEN [message |-> "duplicate login_id", insert |-> None]
    ELSE IF is_duplicate_email(users, new_user.email)
    THEN [message |-> "duplicate email", insert |-> None]
    ELSE [message |-> "Welcome",
          insert |-> <<UserInDB(new_user.login_id, new_user.email,
                                get_hashed_password(new_user.password))>>]

delete_user(users, user) == delete_one(users, [login_id |-> user.login_id])

(* Mutant: the loop compares the owner and not the date. *)
RECURSIVE scan_tickets_owner_only(_, _)
scan_tickets_owner_only(ticket, every_ticket) ==
    IF every_ticket = <<>> THEN TRUE
    ELSE IF Head(every_ticket).owner_login_id = ticket.owner_login_id
         THEN FALSE
         ELSE scan_tickets_owner_only(ticket, Tail(every_ticket))

RECURSIVE scan_tickets(_, _)
scan_tickets(ticket, every_ticket) ==
    IF every_ticket = <<>> THEN TRUE
    ELSE IF /\ Head(every_ticket).departure_date = ticket.departure_date
            /\ Head(every_ticket).owner_login_id = ticket.owner_login_id
         THEN FALSE
         ELSE scan_tickets(ticket, Tail(every_ticket))

(* Mutant: the endpoints are not compared. *)
ticket_is_valid_any_endpoints(tickets, ticket) ==
    scan_tickets(ticket, find(tickets, <<>>))

(* Mutant: the loop compares the date and not the owner. *)
ticket_is_valid_date_only(tickets, ticket) ==
    IF ticket.starting_point = ticket.ending_point THEN FALSE
    ELSE find_one(tickets, [departure_date |-> ticket.departure_date]) = None

ticket_is_valid(tickets, ticket) ==
    IF ticket.starting_point = ticket.ending_point THEN FALSE
    ELSE scan_tickets(ticket, find(tickets, <<>>))

(* Mutant: another reward. *)
update_user_mileage_double(user) ==
    [login_id |-> user.login_id, inc |-> 200]

(* The update_one handed to the store unawaited: $inc mileage by 100. *)
update_user_mileage(user) ==
    [login_id |-> user.login_id, inc |-> 100]

(* Mutant: the validator's answer is not looked at. *)
create_ticket_unchecked(tickets, user, new_ticket) ==
    [message |-> <<"new ticket has added!">>,
     tickets |-> insert_one(tickets, TicketInDB(new_ticket, user.login_id)),
     update |-> <<update_user_mileage(user)>>]

create_ticket(tickets, user, new_ticket) ==
    LET store_ticket == TicketInDB(new_ticket, user.login_id)
    IN  IF ~ticket_is_valid(tickets, store_ticket)
        THEN [message |-> None, tickets |-> tickets, update |-> None]
        ELSE [message |-> <<"new ticket has added!">>,
              tickets |-> insert_one(tickets, store_ticket),
              update |-> <<update_user_mileage(user)>>]

(* Mutant: the delete filter is empty. *)
cancel_every_ticket_of_everyone(users, tickets, user) ==
    [tickets |-> delete_many(tickets, <<>>),
     users |-> update_one_set(users, [login_id |-> user.login_id], 0)]

(* Mutant: the mileage is lowered by one reward instead of being reset. *)
cancel_every_ticket_debit(users, tickets, user) ==
    [tickets |-> delete_many(tickets, [owner_login_id |-> user.login_id]),
     users |-> update_one_inc(users, [login_id |-> user.login_id], -100)]

cancel_every_ticket(users, tickets, user) ==
    [tickets |-> delete_many(tickets, [owner_login_id |-> user.login_id]),
     users |-> update_one_set(users, [login_id |-> user.login_id], 0)]

(* Mutant: the ticket is kept and marked instead of being deleted. *)
cancel_ticket_by_departure_date_marking(users, tickets, cancel_date, user) ==
    LET query == [departure_date |-> cancel_date,
                  owner_login_id |-> user.login_id]
        i == first_match(tickets, query)
    IN  IF find_one(tickets, [departure_date |-> cancel_date]) = None
        THEN [message |-> None, tickets |-> tickets, users |-> users]
        ELSE [message |-> <<"Your flight has been deleted.">>,
              tickets |-> IF i = 0 THEN tickets
                          ELSE [tickets EXCEPT ![i].jet_type = "cancelled"],
              users |-> update_one_inc(users, [login_id |-> user.login_id],
                                       -100)]

(* Mutant: the delete filter names the date and not the owner. *)
cancel_ticket_by_departure_date_any_owner(users, tickets, cancel_date, user) ==
    LET check_ticket == find_one(tickets, [departure_date |-> cancel_date])
    IN  IF check_ticket = None
        THEN [message |-> None, tickets |-> tickets, users |-> users]
        ELSE [message |-> <<"Your flight has been deleted.">>,
              tickets |-> delete_one(tickets, [departure_date |-> cancel_date]),
              users |-> update_one_inc(users, [login_id |-> user.login_id],
                                       -100)]

cancel_ticket_by_departure_date(users, tickets, cancel_date, user) ==
    LET check_ticket == find_one(tickets, [departure_date |-> cancel_date])
    IN  IF check_ticket = None
        THEN [message |-> None, tickets |-> tickets, users |-> users]
        ELSE [message |-> <<"Your flight has been deleted.">>,
              tickets |-> delete_one(tickets,
                              [departure_date |-> cancel_date,
                               owner_login_id |-> user.login_id]),
              users |-> update_one_inc(users, [login_id |-> user.login_id],
                                       -100)]

(* The loop of read_every_ticket: ticket_dict['Ticket ' + str(index)] for  *)
(* each found ticket in turn.                                               *)
RECURSIVE number_tickets(_, _, _)
number_tickets(tickets, index, ticket_dict) ==
    IF tickets = <<>> THEN ticket_dict
    ELSE number_tickets(Tail(tickets), index + 1,
                        (("Ticket " \o ToString(index)) :> Head(tickets))
                            @@ ticket_dict)

(* Mutant: the find has no owner filter. *)
read_every_ticket_of_anyone(tickets, user) ==
    number_tickets(find(tickets, <<>>), 1, <<>>)

read_every_ticket(tickets, user) ==
    number_tickets(find(tickets, [owner_login_id |-> user.login_id]), 1, <<>>)

----------------------------------------------------------------------------
(* Requests: what a client can send *)

(* Registrations: a fresh pair, and pairs that repeat a login_id, an email *)
(* or both of an earlier one.                                              *)
UserForms == {[login_id |-> "alice", email |-> "a@x.com", password |-> "pw"],
              [login_id |-> "bob", email |-> "b@x.com", password |-> "pw"],
              [login_id |-> "bob", email |-> "a@x.com", password |-> "pw"]}

TicketForms == [starting_point : Origins, ending_point : Destinations,
                departure_date : Dates, jet_type : JetTypes]

(* A token signed with another key than SECRET_KEY. *)
ForgedToken == [sub |-> <<"alice">>, exp |-> ACCESS_TOKEN_EXPIRE_MINUTES,
                sig |-> "HS256:other key"]

(* A token signed with SECRET_KEY whose payload has no "sub". *)
NoSubjectToken == [sub |-> None, exp |-> now + ACCESS_TOKEN_EXPIRE_MINUTES,
                   sig |-> "HS256:SECRET_KEY"]

(* The value "Bearer <jwt>" of the access_token cookie or of the           *)
(* Authorization header.                                                   *)
Bearer(token) == <<[scheme |-> "Bearer ", jwt |-> token]>>

(* The access_token cookie of a request: none, or "Bearer " and a token. *)
Cookies == {None} \cup
           {Bearer(t) : t \in tokens \cup {ForgedToken, NoSubjectToken}}

Inflight == BagCardinality(inflight_insert) + BagCardinality(inflight_inc)

(* The answer to a request: the handler, the status code, the detail, and *)
(* of the request the authenticated login_id (for a registration the      *)
(* submitted login_id and email) and the date it names.                   *)
ResponseTo(op, status, detail, req) ==
    [op |-> op, status |-> status, detail |-> detail, req |-> req]

Response(op, status, detail) == ResponseTo(op, status, detail, <<>>)

Init ==
    /\ user_collection = <<>>
    /\ ticket_collection = <<>>
    /\ inflight_insert = EmptyBag
    /\ inflight_inc = EmptyBag
    /\ tokens = {}
    /\ now = 0
    /\ last = Response("-", 0, "-")
    /\ running = EmptyBag

----------------------------------------------------------------------------
(* main.py: the handlers, each run to completion *)

create_one_user(form) ==
    LET new_user_message == create_user(user_collection, form)
    IN  /\ inflight_insert' =
              IF new_user_message.insert = None THEN inflight_insert
              ELSE inflight_insert (+) SetToBag({new_user_message.insert[1]})
        /\ last' = IF new_user_message.message = "duplicate login_id"
                   THEN ResponseTo("create-user", HTTP_409_CONFLICT,
                                   "Login ID is already registered",
                                   <<form.login_id, form.email>>)
                   ELSE IF new_user_message.message = "duplicate email"
                   THEN ResponseTo("create-user", HTTP_409_CONFLICT,
                                   "Email is already registered",
                                   <<form.login_id, form.email>>)
                   ELSE ResponseTo("create-user", HTTP_302_FOUND, "/index",
                                   <<form.login_id, form.email>>)
        /\ UNCHANGED <<user_collection, ticket_collection, inflight_inc, tokens, now, running>>

(* POST /token: None for the 401, or the body with the access token. *)
login_for_access_token(users, username, password, utcnow) ==
    LET user == authenticate_user(users, username, password)
    IN  IF user = None THEN None
        ELSE <<[access_token |->
                   create_access_token(user[1].login_id,
                                       <<ACCESS_TOKEN_EXPIRE_MINUTES>>, utcnow),
                token_type |-> "bearer"]>>

token_post(username, password) ==
    LET body == login_for_access_token(user_collection, username, password, now)
    IN  /\ tokens' = IF body = None THEN tokens
                     ELSE tokens \cup {body[1].access_token}
        /\ last' = IF body = None
                   THEN ResponseTo("token", HTTP_401_UNAUTHORIZED,
                                   "Incorrect Login ID or Password.",
                                   <<username, None>>)
                   ELSE ResponseTo("token", 200, "-", <<username, body>>)
        /\ UNCHANGED <<user_collection, ticket_collection, inflight_insert,
                       inflight_inc, now, running>>

(* POST /login_result: the token of login_for_access_token set as the      *)
(* access_token cookie of the redirect; its 401 is raised before.          *)
login_result(login_id, password) ==
    LET token_obj == login_for_access_token(user_collection, login_id, password, now)
    IN  /\ tokens' = IF token_obj = None THEN tokens
                     ELSE tokens \cup {token_obj[1].access_token}
        /\ last' = IF token_obj = None
                   THEN ResponseTo("login_result", HTTP_401_UNAUTHORIZED,
                                   "Incorrect Login ID or Password.",
                                   <<login_id, None>>)
                   ELSE ResponseTo("login_result", HTTP_302_FOUND, "/index",
                                   <<login_id, Bearer(token_obj[1].access_token)>>)
        /\ UNCHANGED <<user_collection, ticket_collection, inflight_insert,
                       inflight_inc, now, running>>

(* A protected handler that does not reach its crud call:                  *)
(* request.cookies["access_token"] raises KeyError without the cookie (the *)
(* framework answers 500), get_current_user_by_token raises the 401.       *)
Refused(op, cookie) ==
    /\ IF cookie = None THEN TRUE
       ELSE get_current_user_by_token(user_collection, cookie[1], now) = None
    /\ last' = IF cookie = None
               THEN Response(op, 500, "KeyError")
               ELSE Response(op, HTTP_401_UNAUTHORIZED,
                             "couldn't validate credentials")
    /\ UNCHANGED <<user_collection, ticket_collection, inflight_insert,
                   inflight_inc, tokens, now, running>>

Resolves(cookie) ==
    IF cookie = None THEN FALSE
    ELSE get_current_user_by_token(user_collection, cookie[1], now) # None

(* The user document the handler works with: the one found when the token  *)
(* was resolved.                                                           *)
CurrentUser(cookie) == get_current_user_by_token(user_collection, cookie[1], now)[1]

create_one_ticket_as(cookie, form) ==
    /\ Resolves(cookie)
    /\ LET current_user == CurrentUser(cookie)
           new_ticket_message == create_ticket(ticket_collection, current_user, form)
       IN  /\ new_ticket_message.message # None =>
                 /\ Len(ticket_collection) < MaxTickets
                 /\ Inflight < MaxInflight
                 /\ current_user.mileage < 100 * MaxCredit
           /\ ticket_collection' = new_ticket_message.tickets
           /\ inflight_inc' =
                 IF new_ticket_message.update = None THEN inflight_inc
                 ELSE inflight_inc (+) SetToBag({new_ticket_message.update[1]})
           /\ last' = IF new_ticket_message.message = None
                      THEN ResponseTo("create-ticket", HTTP_409_CONFLICT,
                                      "Invalid Ticket Information",
                                      <<current_user.login_id, form.departure_date>>)
                      ELSE ResponseTo("create-ticket", HTTP_302_FOUND, "/private",
                                      <<current_user.login_id, form.departure_date>>)
    /\ UNCHANGED <<user_collection, inflight_insert, tokens, now, running>>

create_one_ticket ==
    \/ \E cookie \in Cookies : Refused("create-ticket", cookie)
    \/ \E cookie \in Cookies, form \in TicketForms : create_one_ticket_as(cookie, form)

cancel_all_tickets_as(cookie) ==
    /\ Resolves(cookie)
    /\ LET user == CurrentUser(cookie)
           message == cancel_every_ticket(user_collection, ticket_collection, user)
       IN  /\ ticket_collection' = message.tickets
           /\ user_collection' = message.users
           /\ last' = ResponseTo("cancel-every-ticket-post-confirm",
                               HTTP_302_FOUND, "/private", <<user.login_id>>)
    /\ UNCHANGED <<inflight_insert, inflight_inc, tokens, now, running>>

cancel_all_tickets_post_confirm ==
    \/ \E cookie \in Cookies : Refused("cancel-every-ticket-post-confirm", cookie)
    \/ \E cookie \in Cookies : cancel_all_tickets_as(cookie)

cancel_one_ticket_as(cookie, cancel_date) ==
    /\ Resolves(cookie)
    /\ LET user == CurrentUser(cookie)
           is_gone == cancel_ticket_by_departure_date(
                          user_collection, ticket_collection, cancel_date, user)
       IN  /\ is_gone.message # None => user.mileage > -100 * MaxDebt
           /\ ticket_collection' = is_gone.tickets
           /\ user_collection' = is_gone.users
           /\ last' = IF is_gone.message = None
                      THEN ResponseTo("cancel-one-ticket-post-confirm",
                                      HTTP_404_NOT_FOUND, "You don't have a flight",
                                      <<user.login_id, cancel_date>>)
                      ELSE ResponseTo("cancel-one-ticket-post-confirm",
                                      HTTP_302_FOUND, "/private",
                                      <<user.login_id, cancel_date>>)
    /\ UNCHANGED <<inflight_insert, inflight_inc, tokens, now, running>>

cancel_one_ticket_post_confirm ==
    \/ \E cookie \in Cookies : Refused("cancel-one-ticket-post-confirm", cookie)
    \/ \E cookie \in Cookies, cancel_date \in Dates :
          cancel_one_ticket_as(cookie, cancel_date)

delete_one_user(users, tickets, current_user) ==
    LET cancelled == cancel_every_ticket(users, tickets, current_user)
    IN  [tickets |-> cancelled.tickets,
         users |-> delete_user(cancelled.users, current_user)]

delete_one_user_as(cookie) ==
    /\ Resolves(cookie)
    /\ LET user == CurrentUser(cookie)
           is_gone == delete_one_user(user_collection, ticket_collection, user)
       IN  /\ ticket_collection' = is_gone.tickets
           /\ user_collection' = is_gone.users
           /\ last' = ResponseTo("delete-my-account-post-confirm",
                               HTTP_302_FOUND, "/index", <<user.login_id>>)
    /\ UNCHANGED <<inflight_insert, inflight_inc, tokens, now, running>>

delete_one_user_post ==
    \/ \E cookie \in Cookies : Refused("delete-my-account-post-confirm", cookie)
    \/ \E cookie \in Cookies : delete_one_user_as(cookie)

(* GET /my-tickets: the dictionary of the user's tickets, or the message. *)
read_all_tickets(tickets, current_user) ==
    LET my_tickets == read_every_ticket(tickets, current_user)
    IN  IF my_tickets = <<>>
        THEN [message |-> "You don't have any tickets!"]
        ELSE my_tickets

(* A handler with the user dependency that does not reach its body: the    *)
(* OAuth2 scheme raises the 401 without an Authorization header,           *)
(* get_current_user_by_token raises it for a token it does not resolve.    *)
NotAuthenticated(op, authorization) ==
    /\ IF authorization = None THEN TRUE
       ELSE get_current_user_by_token(user_collection, authorization[1], now) = None
    /\ last' = ResponseTo(op, HTTP_401_UNAUTHORIZED,
                          IF authorization = None THEN "Not authenticated"
                          ELSE "couldn't validate credentials",
                          <<authorization, None>>)
    /\ UNCHANGED <<user_collection, ticket_collection, inflight_insert,
                   inflight_inc, tokens, now, running>>

read_all_tickets_as(authorization) ==
    /\ Resolves(authorization)
    /\ last' = ResponseTo("my-tickets", 200, "-",
                          <<authorization,
                            <<read_all_tickets(ticket_collection,
                                               CurrentUser(authorization))>>>>)
    /\ UNCHANGED <<user_collection, ticket_collection, inflight_insert,
                   inflight_inc, tokens, now, running>>

my_tickets ==
    \/ \E authorization \in Cookies : NotAuthenticated("my-tickets", authorization)
    \/ \E authorization \in Cookies : read_all_tickets_as(authorization)

(* Mutant: the server forgets the tokens it has issued. *)
logout_revoking(cookie) ==
    /\ tokens' = {}
    /\ last' = ResponseTo("logout", 307, "/index", <<cookie>>)
    /\ UNCHANGED <<user_collection, ticket_collection, inflight_insert,
                   inflight_inc, now, running>>

(* GET /logout: a redirect that tells the client to drop the cookie it     *)
(* presented; nothing is read or written.                                  *)
logout(cookie) ==
    /\ last' = ResponseTo("logout", 307, "/index", <<cookie>>)
    /\ UNCHANGED <<user_collection, ticket_collection, inflight_insert,
                   inflight_inc, tokens, now, running>>

----------------------------------------------------------------------------
(* The store finishes an operation that was started without await *)

store_insert_one(doc) ==
    /\ BagIn(doc, inflight_insert)
    /\ inflight_insert' = inflight_insert (-) SetToBag({doc})
    /\ user_collection' = insert_one(user_collection, doc)
    /\ last' = Response("store insert_one", 0, "-")
    /\ UNCHANGED <<ticket_collection, inflight_inc, tokens, now, running>>

store_update_one(update) ==
    /\ BagIn(update, inflight_inc)
    /\ inflight_inc' = inflight_inc (-) SetToBag({update})
    /\ user_collection' =
          update_one_inc(user_collection, [login_id |-> update.login_id], update.inc)
    /\ last' = Response("store update_one", 0, "-")
    /\ UNCHANGED <<ticket_collection, inflight_insert, tokens, now, running>>

----------------------------------------------------------------------------

(* A registration that starts an insert waits until fewer than limit store *)
(* operations are pending.                                                 *)
MayRegister(form, pending, limit) ==
    create_user(user_collection, form).insert # None => pending < limit

Next ==
    \/ \E form \in UserForms :
          MayRegister(form, Inflight, MaxInflight) /\ create_one_user(form)
    \/ \E login_id \in LoginIds, password \in Passwords \cup {WrongPassword} :
          login_result(login_id, password)
    \/ create_one_ticket
    \/ cancel_all_tickets_post_confirm
    \/ cancel_one_ticket_post_confirm
    \/ delete_one_user_post
    \/ my_tickets
    \/ \E doc \in BagToSet(inflight_insert) : store_insert_one(doc)
    \/ \E update \in BagToSet(inflight_inc) : store_update_one(update)

Spec == Init /\ [][Next]_vars

----------------------------------------------------------------------------
(* Registration and account deletion alone, requests still handled one at  *)
(* a time, with up to MaxPending inserts of create_user not yet carried    *)
(* out by the store.                                                       *)

MaxPending == 2

NextRegistration ==
    \/ \E form \in UserForms :
          /\ MayRegister(form, BagCardinality(inflight_insert), MaxPending)
          /\ create_one_user(form)
    \/ \E doc \in BagToSet(inflight_insert) : store_insert_one(doc)
    \/ \E login_id \in LoginIds, password \in Passwords \cup {WrongPassword} :
          login_result(login_id, password)
    \/ delete_one_user_post

SpecRegistration == Init /\ [][NextRegistration]_vars

----------------------------------------------------------------------------
(* Sessions: registration, the two login endpoints, logout, a handler with *)
(* the user dependency, account deletion, and the clock.  The clock is     *)
(* read at the instants around the expiry of a token of the login          *)
(* endpoints issued at 0; create_access_token is also applied to every ttl *)
(* of Ttls.                                                                *)

MaxTokens == 2

Instants == {0, ACCESS_TOKEN_EXPIRE_MINUTES - 1, ACCESS_TOKEN_EXPIRE_MINUTES,
             ACCESS_TOKEN_EXPIRE_MINUTES + 1}

(* expires_delta: not given, or a timedelta of so many minutes. *)
Ttls == {None, <<0>>, <<1>>, <<ACCESS_TOKEN_EXPIRE_MINUTES>>}

Tick ==
    /\ \E t \in Instants : t > now /\ now' = t
    /\ last' = Response("clock", 0, "-")
    /\ UNCHANGED <<user_collection, ticket_collection, inflight_insert,
                   inflight_inc, tokens, running>>

(* create_access_token applied to a subject and a ttl at the current time. *)
issue(sub, expires_delta) ==
    /\ last' = ResponseTo("create_access_token", 0, "-",
                          <<sub, expires_delta,
                            create_access_token(sub, expires_delta, now)>>)
    /\ UNCHANGED <<user_collection, ticket_collection, inflight_insert,
                   inflight_inc, tokens, now, running>>

NextSession ==
    \/ \E form \in UserForms :
          MayRegister(form, Inflight, MaxInflight) /\ create_one_user(form)
    \/ \E doc \in BagToSet(inflight_insert) : store_insert_one(doc)
    \/ \E username \in LoginIds, password \in Passwords \cup {WrongPassword} :
          token_post(username, password) /\ Cardinality(tokens') <= MaxTokens
    \/ \E login_id \in LoginIds, password \in Passwords \cup {WrongPassword} :
          login_result(login_id, password) /\ Cardinality(tokens') <= MaxTokens
    \/ \E cookie \in Cookies : logout(cookie)
    \/ my_tickets
    \/ delete_one_user_post
    \/ \E sub \in LoginIds, expires_delta \in Ttls : issue(sub, expires_delta)
    \/ Tick

SpecSession == Init /\ [][NextSession]_vars

----------------------------------------------------------------------------
(* The requests of the scenario of one user *)

Alice == "alice"

AliceForm == [login_id |-> Alice, email |-> "a@x.com", password |-> "pw"]

SeaLaxOn(date) == [starting_point |-> "SEA", ending_point |-> "LAX",
                   departure_date |-> date, jet_type |-> "G650"]

----------------------------------------------------------------------------
(* Handlers that give way at their awaits.  A coroutine runs from one      *)
(* awaited store operation to the next without interruption (the event     *)
(* loop switches at an await only); each step below is one store operation *)
(* together with the code that follows it up to the next one.  running     *)
(* holds the frame of every suspended coroutine: its handler, the await it *)
(* is suspended at, and its local variables.                               *)

MaxRunning == 3

(* A step that sends no answer. *)
Await == Response("await", 0, "-")

Suspend(frame) == running' = running (+) SetToBag({frame})

Resume(frame, next) ==
    running' = (running (-) SetToBag({frame})) (+) SetToBag({next})

Return(frame) == running' = running (-) SetToBag({frame})

(* The number of suspended coroutines of one handler. *)
Running(op) ==
    BagCardinality([frame \in {f \in BagToSet(running) : f.op = op}
                       |-> running[frame]])

(* POST /create-ticket, first step: the find_one of                        *)
(* get_current_user_by_token; create_ticket builds store_ticket and        *)
(* ticket_is_valid starts its find.                                        *)
create_one_ticket_begin(cookie, form) ==
    /\ Resolves(cookie)
    /\ LET current_user == CurrentUser(cookie)
       IN  Suspend([op |-> "create-ticket", pc |-> "ticket_is_valid",
                    current_user |-> current_user,
                    store_ticket |-> TicketInDB(form, current_user.login_id)])
    /\ last' = Await
    /\ UNCHANGED <<user_collection, ticket_collection, inflight_insert,
                   inflight_inc, tokens, now>>

(* Second step: the find of ticket_is_valid returns every ticket, the loop *)
(* runs over them; create_ticket returns None, or starts its insert_one.   *)
create_ticket_ticket_is_valid(frame) ==
    /\ frame.op = "create-ticket"
    /\ frame.pc = "ticket_is_valid"
    /\ IF ticket_is_valid(ticket_collection, frame.store_ticket)
       THEN /\ Resume(frame, [frame EXCEPT !.pc = "insert_one"])
            /\ last' = Await
       ELSE /\ Return(frame)
            /\ last' = ResponseTo("create-ticket", HTTP_409_CONFLICT,
                                  "Invalid Ticket Information",
                                  <<frame.current_user.login_id,
                                    frame.store_ticket.departure_date>>)
    /\ UNCHANGED <<user_collection, ticket_collection, inflight_insert,
                   inflight_inc, tokens, now>>

(* Mutant: the validator is asked again when the insert is carried out. *)
create_ticket_insert_one_validated(frame) ==
    /\ frame.op = "create-ticket"
    /\ frame.pc = "insert_one"
    /\ LET message == create_ticket(ticket_collection, frame.current_user,
                                    frame.store_ticket)
       IN  /\ ticket_collection' = message.tickets
           /\ inflight_inc' =
                 IF message.update = None THEN inflight_inc
                 ELSE inflight_inc (+) SetToBag({message.update[1]})
           /\ last' = ResponseTo("create-ticket",
                                 IF message.message = None
                                 THEN HTTP_409_CONFLICT ELSE HTTP_302_FOUND,
                                 "-",
                                 <<frame.current_user.login_id,
                                   frame.store_ticket.departure_date>>)
    /\ Return(frame)
    /\ UNCHANGED <<user_collection, inflight_insert, tokens, now>>

(* Third step: the insert_one is carried out; update_user_mileage starts   *)
(* its update_one and does not wait for it; the handler answers.           *)
create_ticket_insert_one(frame) ==
    /\ frame.op = "create-ticket"
    /\ frame.pc = "insert_one"
    /\ ticket_collection' = insert_one(ticket_collection, frame.store_ticket)
    /\ inflight_inc' =
          inflight_inc (+) SetToBag({update_user_mileage(frame.current_user)})
    /\ Return(frame)
    /\ last' = ResponseTo("create-ticket", HTTP_302_FOUND, "/private",
                          <<frame.current_user.login_id,
                            frame.store_ticket.departure_date>>)
    /\ UNCHANGED <<user_collection, inflight_insert, tokens, now>>

(* POST /delete-my-account-post-confirm, first step: the find_one of       *)
(* get_current_user_by_token; cancel_every_ticket starts its delete_many.  *)
delete_one_user_begin(cookie) ==
    /\ Resolves(cookie)
    /\ Suspend([op |-> "delete-my-account-post-confirm", pc |-> "delete_many",
                current_user |-> CurrentUser(cookie)])
    /\ last' = Await
    /\ UNCHANGED <<user_collection, ticket_collection, inflight_insert,
                   inflight_inc, tokens, now>>

(* Second step: the delete_many of cancel_every_ticket. *)
cancel_every_ticket_delete_many(frame) ==
    /\ frame.op = "delete-my-account-post-confirm"
    /\ frame.pc = "delete_many"
    /\ ticket_collection' =
          delete_many(ticket_collection,
                      [owner_login_id |-> frame.current_user.login_id])
    /\ Resume(frame, [frame EXCEPT !.pc = "update_one"])
    /\ last' = Await
    /\ UNCHANGED <<user_collection, inflight_insert, inflight_inc, tokens, now>>

(* Third step: the update_one ($set mileage 0) of cancel_every_ticket. *)
cancel_every_ticket_update_one(frame) ==
    /\ frame.op = "delete-my-account-post-confirm"
    /\ frame.pc = "update_one"
    /\ user_collection' =
          update_one_set(user_collection,
                         [login_id |-> frame.current_user.login_id], 0)
    /\ Resume(frame, [frame EXCEPT !.pc = "delete_one"])
    /\ last' = Await
    /\ UNCHANGED <<ticket_collection, inflight_insert, inflight_inc, tokens, now>>

(* Fourth step: the delete_one of delete_user; the handler answers. *)
delete_user_delete_one(frame) ==
    /\ frame.op = "delete-my-account-post-confirm"
    /\ frame.pc = "delete_one"
    /\ user_collection' = delete_user(user_collection, frame.current_user)
    /\ Return(frame)
    /\ last' = ResponseTo("delete-my-account-post-confirm", HTTP_302_FOUND,
                          "/index", <<frame.current_user.login_id>>)
    /\ UNCHANGED <<ticket_collection, inflight_insert, inflight_inc, tokens, now>>

(* The bookings in sight: the tickets stored and the bookings under way    *)
(* stay within MaxTickets, the mileage of the user with every credit       *)
(* pending or to come within MaxCredit rewards.                            *)
MayBook(cookie) ==
    /\ Resolves(cookie)
    /\ Len(ticket_collection) + Running("create-ticket") < MaxTickets
    /\ CurrentUser(cookie).mileage
          + 100 * (BagCardinality(inflight_inc) + Running("create-ticket"))
          < 100 * MaxCredit

NextConcurrent ==
    \/ /\ MayRegister(AliceForm, Inflight, MaxInflight)
       /\ create_one_user(AliceForm)
    \/ \E doc \in BagToSet(inflight_insert) : store_insert_one(doc)
    \/ login_result(Alice, "pw")
    \/ \E cookie \in Cookies : Refused("create-ticket", cookie)
    \/ \E cookie \in Cookies, date \in Dates :
          /\ BagCardinality(running) < MaxRunning
          /\ MayBook(cookie)
          /\ create_one_ticket_begin(cookie, SeaLaxOn(date))
    \/ \E frame \in BagToSet(running) : create_ticket_ticket_is_valid(frame)
    \/ \E frame \in BagToSet(running) : create_ticket_insert_one(frame)
    \/ \E update \in BagToSet(inflight_inc) : store_update_one(update)
    \/ \E cookie \in Cookies : Refused("delete-my-account-post-confirm", cookie)
    \/ \E cookie \in Cookies :
          /\ BagCardinality(running) < MaxRunning
          /\ delete_one_user_begin(cookie)
    \/ \E frame \in BagToSet(running) : cancel_every_ticket_delete_many(frame)
    \/ \E frame \in BagToSet(running) : cancel_every_ticket_update_one(frame)
    \/ \E frame \in BagToSet(running) : delete_user_delete_one(frame)

SpecConcurrent == Init /\ [][NextConcurrent]_vars

----------------------------------------------------------------------------
(* POST /create-user as a coroutine.  First step: the find_one of           *)
(* is_duplicate_login_id.                                                   *)
create_user_is_duplicate_login_id(form) ==
    /\ Suspend([op |-> "create-user", pc |-> "is_duplicate_email",
                new_user |-> form,
                duplicate_login_id |->
                    is_duplicate_login_id(user_collection, form.login_id)])
    /\ last' = Await
    /\ UNCHANGED <<user_collection, ticket_collection, inflight_insert,
                   inflight_inc, tokens, now>>

(* The answer of create_one_user to the message of create_user. *)
create_one_user_response(new_user, message) ==
    IF message = "duplicate login_id"
    THEN ResponseTo("create-user", HTTP_409_CONFLICT,
                    "Login ID is already registered",
                    <<new_user.login_id, new_user.email>>)
    ELSE IF message = "duplicate email"
    THEN ResponseTo("create-user", HTTP_409_CONFLICT,
                    "Email is already registered",
                    <<new_user.login_id, new_user.email>>)
    ELSE ResponseTo("create-user", HTTP_302_FOUND, "/index",
                    <<new_user.login_id, new_user.email>>)

(* Mutant: both lookups are made again when the insert is started. *)
create_user_is_duplicate_email_atomic(frame) ==
    /\ frame.op = "create-user"
    /\ frame.pc = "is_duplicate_email"
    /\ LET new_user_message == create_user(user_collection, frame.new_user)
       IN  /\ inflight_insert' =
                 IF new_user_message.insert = None THEN inflight_insert
                 ELSE inflight_insert (+) SetToBag({new_user_message.insert[1]})
           /\ last' = create_one_user_response(frame.new_user,
                                               new_user_message.message)
    /\ Return(frame)
    /\ UNCHANGED <<user_collection, ticket_collection, inflight_inc, tokens, now>>

(* Second step: the find_one of is_duplicate_email; then the two tests,    *)
(* the hash, the insert_one that is started and not awaited, and the       *)
(* answer of create_one_user.                                              *)
create_user_is_duplicate_email(frame) ==
    /\ frame.op = "create-user"
    /\ frame.pc = "is_duplicate_email"
    /\ LET new_user == frame.new_user
           duplicate_email == is_duplicate_email(user_collection, new_user.email)
           message == IF frame.duplicate_login_id THEN "duplicate login_id"
                      ELSE IF duplicate_email THEN "duplicate email"
                      ELSE "Welcome"
       IN  /\ inflight_insert' =
                 IF message # "Welcome" THEN inflight_insert
                 ELSE inflight_insert (+)
                      SetToBag({UserInDB(new_user.login_id, new_user.email,
                                         get_hashed_password(new_user.password))})
           /\ last' = create_one_user_response(new_user, message)
    /\ Return(frame)
    /\ UNCHANGED <<user_collection, ticket_collection, inflight_inc, tokens, now>>

(* Registrations alone, interleaved at the two lookups, the store carrying *)
(* out the inserts that were started.                                      *)
NextConcurrentRegistration ==
    \/ \E form \in UserForms :
          /\ BagCardinality(running) < MaxRunning
          /\ create_user_is_duplicate_login_id(form)
    \/ \E frame \in BagToSet(running) :
          /\ BagCardinality(inflight_insert) < MaxPending
          /\ create_user_is_duplicate_email(frame)
    \/ \E doc \in BagToSet(inflight_insert) : store_insert_one(doc)

SpecConcurrentRegistration == Init /\ [][NextConcurrentRegistration]_vars

----------------------------------------------------------------------------
(* The booking application of one user with the clock: the four handlers   *)
(* that write to the stores, requests handled one at a time, tokens that   *)
(* expire.                                                                 *)
NextExpiry ==
    \/ /\ MayRegister(AliceForm, Inflight, MaxInflight)
       /\ create_one_user(AliceForm)
    \/ \E doc \in BagToSet(inflight_insert) : store_insert_one(doc)
    \/ login_result(Alice, "pw") /\ Cardinality(tokens') <= MaxTokens
    \/ create_one_ticket
    \/ cancel_all_tickets_post_confirm
    \/ cancel_one_ticket_post_confirm
    \/ delete_one_user_post
    \/ \E update \in BagToSet(inflight_inc) : store_update_one(update)
    \/ Tick

SpecExpiry == Init /\ [][NextExpiry]_vars

----------------------------------------------------------------------------
(* A store operation that fails: the awaited call raises the driver's      *)
(* error, no handler catches it, and the framework answers 500.            *)

(* Mutant: the tickets and the mileage are put back when delete_user fails. *)
delete_one_user_rolled_back(users, tickets, current_user) ==
    [tickets |-> tickets, users |-> users]

(* delete_one_user when the delete_one of delete_user raises: the left     *)
(* operand, cancel_every_ticket, has been awaited before.                  *)
delete_one_user_raising(users, tickets, current_user) ==
    LET cancelled == cancel_every_ticket(users, tickets, current_user)
    IN  [tickets |-> cancelled.tickets, users |-> cancelled.users]

delete_one_user_raising_as(cookie) ==
    /\ Resolves(cookie)
    /\ LET user == CurrentUser(cookie)
           is_gone == delete_one_user_raising(user_collection,
                                              ticket_collection, user)
       IN  /\ ticket_collection' = is_gone.tickets
           /\ user_collection' = is_gone.users
           /\ last' = ResponseTo("delete-my-account-post-confirm", 500,
                                 "PyMongoError", <<user.login_id>>)
    /\ UNCHANGED <<inflight_insert, inflight_inc, tokens, now, running>>

(* The booking application, requests handled one at a time, with           *)
(* delete-account requests whose user-record deletion fails.               *)
NextFailure ==
    \/ \E form \in UserForms :
          MayRegister(form, Inflight, MaxInflight) /\ create_one_user(form)
    \/ \E login_id \in LoginIds : login_result(login_id, "pw")
    \/ create_one_ticket
    \/ cancel_all_tickets_post_confirm
    \/ cancel_one_ticket_post_confirm
    \/ delete_one_user_post
    \/ \E cookie \in Cookies : delete_one_user_raising_as(cookie)
    \/ \E doc \in BagToSet(inflight_insert) : store_insert_one(doc)
    \/ \E update \in BagToSet(inflight_inc) : store_update_one(update)

SpecFailure == Init /\ [][NextFailure]_vars

----------------------------------------------------------------------------
(* Vocabulary of the properties *)

Bob == "bob"

Day1 == "2024-06-01"

Day2 == "2024-06-02"

(* login_id holds a stored ticket departing on date. *)
Holds(tickets, login_id, date) ==
    \E i \in DOMAIN tickets : /\ tickets[i].owner_login_id = login_id
                              /\ tickets[i].departure_date = date

(* i is the place of the first user document with this login_id. *)
IsUserAt(users, login_id, i) ==
    /\ i \in DOMAIN users
    /\ users[i].login_id = login_id
    /\ \A j \in 1..(i - 1) : users[j].login_id # login_id

Registered(users, login_id) == \E i \in DOMAIN users : users[i].login_id = login_id

(* The stored mileage of login_id differs by delta between users and after, *)
(* and nothing else of the user store differs.                              *)
OnlyMileageMoved(users, after, login_id, delta) ==
    \E i \in DOMAIN users :
        /\ IsUserAt(users, login_id, i)
        /\ after = [users EXCEPT ![i].mileage = users[i].mileage + delta]

(* tickets without its i-th document. *)
Without(tickets, i) ==
    [j \in 1..(Len(tickets) - 1) |-> IF j < i THEN tickets[j] ELSE tickets[j + 1]]

StoresUnchanged ==
    UNCHANGED <<user_collection, ticket_collection, inflight_insert, inflight_inc>>

----------------------------------------------------------------------------
(* C1: a create-ticket request of an authenticated existing user with       *)
(* different endpoints and no ticket of that user on the requested date is  *)
(* answered with the redirect, adds exactly one ticket (the submitted       *)
(* fields, owner_login_id the user) and hands the store exactly one $inc of *)
(* 100 on that user's mileage; the store, when it carries an $inc out,      *)
(* raises the mileage of that user by exactly 100 and touches no other user *)
(* document and no ticket.                                                  *)
C1_BookingAddsOneTicketAndCredits100 ==
    [][ /\ last'.op = "create-ticket" =>
           \A cookie \in Cookies, form \in TicketForms :
             ( /\ Resolves(cookie)
               /\ form.starting_point # form.ending_point
               /\ ~Holds(ticket_collection, CurrentUser(cookie).login_id,
                         form.departure_date)
               /\ create_one_ticket_as(cookie, form) )
             => /\ last'.status = 302
                /\ ticket_collection' =
                      Append(ticket_collection,
                             [starting_point |-> form.starting_point,
                              ending_point |-> form.ending_point,
                              departure_date |-> form.departure_date,
                              jet_type |-> form.jet_type,
                              owner_login_id |-> CurrentUser(cookie).login_id])
                /\ inflight_inc' = inflight_inc (+)
                      SetToBag({[login_id |-> CurrentUser(cookie).login_id,
                                 inc |-> 100]})
                /\ UNCHANGED <<user_collection, inflight_insert>>
        /\ last'.op = "store update_one" =>
           \A update \in BagToSet(inflight_inc) :
             store_update_one(update)
             => /\ update.inc = 100
                /\ ticket_collection' = ticket_collection
                /\ IF Registered(user_collection, update.login_id)
                   THEN OnlyMileageMoved(user_collection, user_collection',
                                         update.login_id, 100)
                   ELSE user_collection' = user_collection
      ]_vars

(* alice's booking has been answered and stored, its credit has been        *)
(* carried out by the store.                                                *)
C1_Witness ==
    /\ last.op = "store update_one"
    /\ Holds(ticket_collection, Alice, Day1)
    /\ Len(ticket_collection) = 1
    /\ \E i \in DOMAIN user_collection :
          /\ user_collection[i].login_id = Alice
          /\ user_collection[i].mileage = 100

----------------------------------------------------------------------------
(* C2: a create-ticket request whose starting_point equals its ending_point *)
(* is answered 409 whatever its date, jet type and owner and whatever the   *)
(* stores hold, and changes neither the ticket store nor any mileage (none  *)
(* stored, none handed to the store).                                       *)
C2_SameEndpointsRejected ==
    [][ last'.op = "create-ticket" =>
        \A cookie \in Cookies, form \in TicketForms :
          ( /\ Resolves(cookie)
            /\ form.starting_point = form.ending_point
            /\ create_one_ticket_as(cookie, form) )
          => /\ last'.status = 409
             /\ StoresUnchanged
      ]_vars

(* A booking was refused while no ticket was stored: only the endpoints     *)
(* rule refuses then.                                                       *)
C2_Witness ==
    /\ last.op = "create-ticket"
    /\ last.status = 409
    /\ ticket_collection = <<>>

----------------------------------------------------------------------------
(* C3: when the user holds a ticket on the requested date the booking is    *)
(* answered 409 and changes neither the ticket store nor any mileage; when  *)
(* the user holds a ticket on another date, none on the requested one, and  *)
(* the endpoints differ, the booking is answered with the redirect and the  *)
(* ticket is stored.                                                        *)
C3_SecondBookingSameDateRejectedOtherDateAccepted ==
    [][ last'.op = "create-ticket" =>
        \A cookie \in Cookies, form \in TicketForms :
          /\ ( /\ Resolves(cookie)
               /\ Holds(ticket_collection, CurrentUser(cookie).login_id,
                        form.departure_date)
               /\ create_one_ticket_as(cookie, form) )
             => /\ last'.status = 409
                /\ StoresUnchanged
          /\ ( /\ Resolves(cookie)
               /\ \E d \in Dates \ {form.departure_date} :
                     Holds(ticket_collection, CurrentUser(cookie).login_id, d)
               /\ ~Holds(ticket_collection, CurrentUser(cookie).login_id,
                         form.departure_date)
               /\ form.starting_point # form.ending_point
               /\ create_one_ticket_as(cookie, form) )
             => /\ last'.status = 302
                /\ Len(ticket_collection') = Len(ticket_collection) + 1
                /\ Holds(ticket_collection', CurrentUser(cookie).login_id,
                         form.departure_date)
      ]_vars

(* alice, holding a ticket on one day, has booked the other day. *)
C3_Witness ==
    /\ last = ResponseTo("create-ticket", 302, "/private", <<Alice, Day2>>)
    /\ Holds(ticket_collection, Alice, Day1)
    /\ Holds(ticket_collection, Alice, Day2)

----------------------------------------------------------------------------
(* C4: ticket_is_valid answers false exactly when the endpoints are equal   *)
(* or a stored ticket has the candidate's departure_date and the            *)
(* candidate's owner_login_id; a ticket of another owner on that date does  *)
(* not count.                                                               *)
C4_ValidatorScopedToOwner ==
    \A form \in TicketForms, owner \in LoginIds :
        LET candidate == TicketInDB(form, owner)
        IN  ticket_is_valid(ticket_collection, candidate) =
               ~( \/ form.starting_point = form.ending_point
                  \/ \E i \in DOMAIN ticket_collection :
                        /\ ticket_collection[i].departure_date = form.departure_date
                        /\ ticket_collection[i].owner_login_id = owner )

(* Two owners hold a ticket on the same date: the later booking was         *)
(* accepted although the other owner's ticket was stored.                   *)
C4_Witness ==
    /\ last.op = "create-ticket"
    /\ last.status = 302
    /\ Holds(ticket_collection, Alice, Day1)
    /\ Holds(ticket_collection, Bob, Day1)

----------------------------------------------------------------------------
(* C5: with the requests handled one at a time, every stored ticket has     *)
(* different endpoints and no two stored tickets have the same owner and    *)
(* the same departure date.                                                 *)
C5_TicketStoreInvariant ==
    /\ \A i \in DOMAIN ticket_collection :
          ticket_collection[i].starting_point # ticket_collection[i].ending_point
    /\ \A i, j \in DOMAIN ticket_collection :
          ( /\ ticket_collection[i].owner_login_id = ticket_collection[j].owner_login_id
            /\ ticket_collection[i].departure_date = ticket_collection[j].departure_date )
          => i = j

(* The store is full and a further booking has just been refused. *)
C5_Witness ==
    /\ Len(ticket_collection) = MaxTickets
    /\ last.op = "create-ticket"
    /\ last.status = 409

----------------------------------------------------------------------------
(* C6: a cancel-one request for a date on which the user holds a ticket is  *)
(* answered with the redirect, removes that user's ticket on that date and  *)
(* no other ticket, and lowers that user's stored mileage by exactly 100,   *)
(* no other user document changing.                                         *)
C6_CancelOneRemovesThatTicketAndDebits100 ==
    [][ last'.op = "cancel-one-ticket-post-confirm" =>
        \A cookie \in Cookies, cancel_date \in Dates :
          ( /\ Resolves(cookie)
            /\ Holds(ticket_collection, CurrentUser(cookie).login_id, cancel_date)
            /\ cancel_one_ticket_as(cookie, cancel_date) )
          => /\ last'.status = 302
             /\ \E i \in DOMAIN ticket_collection :
                   /\ ticket_collection[i].owner_login_id =
                         CurrentUser(cookie).login_id
                   /\ ticket_collection[i].departure_date = cancel_date
                   /\ ticket_collection' = Without(ticket_collection, i)
             /\ ~Holds(ticket_collection', CurrentUser(cookie).login_id, cancel_date)
             /\ OnlyMileageMoved(user_collection, user_collection',
                                 CurrentUser(cookie).login_id, -100)
             /\ UNCHANGED <<inflight_insert, inflight_inc>>
      ]_vars

(* alice has cancelled her ticket on a day on which bob holds one too:      *)
(* bob's is still stored, hers is gone, her credit of 100 is taken back.    *)
C6_Witness ==
    /\ last = ResponseTo("cancel-one-ticket-post-confirm", 302, "/private",
                         <<Alice, Day1>>)
    /\ Holds(ticket_collection, Bob, Day1)
    /\ ~Holds(ticket_collection, Alice, Day1)
    /\ \E i \in DOMAIN user_collection :
          /\ user_collection[i].login_id = Alice
          /\ user_collection[i].mileage = 0

----------------------------------------------------------------------------
(* C7: a cancel-one request for a date on which the user holds no ticket is *)
(* answered 404 and changes neither the ticket store nor the mileage,       *)
(* whatever the stores hold.                                                *)
C7_CancelOneWithoutTicketIsNotFound ==
    [][ last'.op = "cancel-one-ticket-post-confirm" =>
        \A cookie \in Cookies, cancel_date \in Dates :
          ( /\ Resolves(cookie)
            /\ ~Holds(ticket_collection, CurrentUser(cookie).login_id, cancel_date)
            /\ cancel_one_ticket_as(cookie, cancel_date) )
          => /\ last'.status = 404
             /\ StoresUnchanged
      ]_vars

----------------------------------------------------------------------------
(* C8: the mileage of every stored user is at least 0 in every reachable    *)
(* state.                                                                   *)
C8_MileageNeverNegative ==
    \A i \in DOMAIN user_collection : user_collection[i].mileage >= 0

----------------------------------------------------------------------------
(* C9: a cancel-all request is answered with the redirect, removes every    *)
(* ticket owned by the user and no ticket of another owner, and sets that   *)
(* user's stored mileage to 0 whatever it was and however many tickets were *)
(* removed, no other user document changing.                                *)
C9_CancelAllRemovesOwnTicketsAndResetsMileage ==
    [][ last'.op = "cancel-every-ticket-post-confirm" =>
        \A cookie \in Cookies :
          ( /\ Resolves(cookie)
            /\ cancel_all_tickets_as(cookie) )
          => /\ last'.status = 302
             /\ ticket_collection' =
                   SelectSeq(ticket_collection,
                             LAMBDA t : t.owner_login_id # CurrentUser(cookie).login_id)
             /\ \E i \in DOMAIN user_collection :
                   /\ IsUserAt(user_collection, CurrentUser(cookie).login_id, i)
                   /\ user_collection' = [user_collection EXCEPT ![i].mileage = 0]
             /\ UNCHANGED <<inflight_insert, inflight_inc>>
      ]_vars

(* alice has cancelled all her tickets while bob holds one: hers are gone,  *)
(* her mileage is 0, bob's ticket and his mileage of 100 are as they were.  *)
C9_Witness ==
    /\ last = ResponseTo("cancel-every-ticket-post-confirm", 302, "/private",
                         <<Alice>>)
    /\ \A d \in Dates : ~Holds(ticket_collection, Alice, d)
    /\ \E d \in Dates : Holds(ticket_collection, Bob, d)
    /\ \E i, j \in DOMAIN user_collection :
          /\ user_collection[i].login_id = Alice
          /\ user_collection[i].mileage = 0
          /\ user_collection[j].login_id = Bob
          /\ user_collection[j].mileage = 100

----------------------------------------------------------------------------
(* C10 as stated: a registration whose login_id is stored is answered with  *)
(* the duplicate-login_id conflict, one whose email is stored with the      *)
(* duplicate-email conflict, and neither changes the user store.            *)
C10_DuplicateRegistrationAsStated ==
    [][ last'.op = "create-user" =>
        \A form \in UserForms :
          create_one_user(form) =>
             /\ (\E i \in DOMAIN user_collection :
                    user_collection[i].login_id = form.login_id)
                => /\ last'.status = 409
                   /\ last'.detail = "Login ID is already registered"
                   /\ StoresUnchanged
             /\ (\E i \in DOMAIN user_collection :
                    user_collection[i].email = form.email)
                => /\ last'.status = 409
                   /\ last'.detail = "Email is already registered"
                   /\ StoresUnchanged
      ]_vars

(* C10 as amended: a registration whose login_id is stored is answered with *)
(* the duplicate-login_id conflict; one whose email is stored and whose     *)
(* login_id is not, with the duplicate-email conflict; both are answered    *)
(* 409 and change no store.                                                 *)
C10_DuplicateRegistrationRejected ==
    [][ last'.op = "create-user" =>
        \A form \in UserForms :
          create_one_user(form) =>
             /\ (\E i \in DOMAIN user_collection :
                    user_collection[i].login_id = form.login_id)
                => /\ last'.status = 409
                   /\ last'.detail = "Login ID is already registered"
                   /\ StoresUnchanged
             /\ ( /\ \E i \in DOMAIN user_collection :
                        user_collection[i].email = form.email
                  /\ \A i \in DOMAIN user_collection :
                        user_collection[i].login_id # form.login_id )
                => /\ last'.status = 409
                   /\ last'.detail = "Email is already registered"
                   /\ StoresUnchanged
      ]_vars

(* bob's registration with alice's stored email has been refused: alice's   *)
(* record is the only one.                                                  *)
C10_Witness ==
    /\ last = ResponseTo("create-user", 409, "Email is already registered",
                         <<Bob, "a@x.com">>)
    /\ Len(user_collection) = 1
    /\ user_collection[1].login_id = Alice
    /\ user_collection[1].email = "a@x.com"

----------------------------------------------------------------------------
(* C11: with requests handled one at a time, no two records of the user     *)
(* store share a login_id and no two share an email.                        *)
C11_UserStoreUnique ==
    \A i, j \in DOMAIN user_collection :
        i # j => /\ user_collection[i].login_id # user_collection[j].login_id
                 /\ user_collection[i].email # user_collection[j].email

----------------------------------------------------------------------------
(* C12: a registration whose login_id and email are in no record of the     *)
(* user store is answered with the redirect and hands the store exactly one *)
(* insert, of a record with the submitted login_id and email, mileage 0 and *)
(* the hash of the submitted password, which verifies the password and is   *)
(* not the password; the record has no other field.  The store, carrying an *)
(* insert out, appends that one record and changes nothing else.            *)
C12_RegistrationAddsOneHashedRecord ==
    [][ /\ last'.op = "create-user" =>
           \A form \in UserForms :
             ( /\ \A i \in DOMAIN user_collection :
                     /\ user_collection[i].login_id # form.login_id
                     /\ user_collection[i].email # form.email
               /\ create_one_user(form) )
             => /\ last'.status = 302
                /\ \E doc \in BagToSet(inflight_insert') :
                      /\ inflight_insert' = inflight_insert (+) SetToBag({doc})
                      /\ DOMAIN doc = {"login_id", "email", "hashed_password",
                                       "mileage"}
                      /\ doc.login_id = form.login_id
                      /\ doc.email = form.email
                      /\ doc.mileage = 0
                      /\ doc.hashed_password = <<"bcrypt", form.password>>
                      /\ check_password(form.password, doc.hashed_password)
                      /\ ~check_password(WrongPassword, doc.hashed_password)
                /\ UNCHANGED <<user_collection, ticket_collection, inflight_inc>>
        /\ last'.op = "store insert_one" =>
           \A doc \in BagToSet(inflight_insert) :
             store_insert_one(doc)
             => /\ user_collection' = Append(user_collection, doc)
                /\ inflight_insert' (+) SetToBag({doc}) = inflight_insert
                /\ UNCHANGED <<ticket_collection, inflight_inc>>
      ]_vars

(* alice's registration has been answered and the store has carried out    *)
(* its insert: her record is the only one.                                 *)
C12_Witness ==
    /\ last.op = "store insert_one"
    /\ Len(user_collection) = 1
    /\ user_collection[1].login_id = Alice
    /\ user_collection[1].email = "a@x.com"
    /\ user_collection[1].mileage = 0
    /\ user_collection[1].hashed_password = <<"bcrypt", "pw">>

----------------------------------------------------------------------------
(* A token of the login endpoints for a login_id of the user store, read   *)
(* while the clock is not past its exp, resolves to the first record with  *)
(* that login_id.                                                          *)
ResolvesUntilExpiry ==
    \A t \in tokens :
        (now <= t.exp /\ Registered(user_collection, t.sub[1]))
        => \E i \in DOMAIN user_collection :
              /\ IsUserAt(user_collection, t.sub[1], i)
              /\ get_current_user_by_token(user_collection, Bearer(t)[1], now)
                    = <<user_collection[i]>>

----------------------------------------------------------------------------
(* C14: a token whose signature is invalid, whose payload has no subject,   *)
(* or whose subject is the login_id of no record of the user store resolves *)
(* to no user and fails with the 401 credential error; a handler presented  *)
(* with it answers 401 and does not run for any user.                       *)
C14_UnresolvableTokenIsUnauthenticated ==
    [][ \A cookie \in Cookies :
          ( /\ cookie # None
            /\ \/ cookie[1].jwt.sig # "HS256:SECRET_KEY"
               \/ cookie[1].jwt.sub = None
               \/ ~Registered(user_collection, cookie[1].jwt.sub[1]) )
          => /\ get_current_user_by_token(user_collection, cookie[1], now) = None
             /\ get_current_user_by_token_raises(user_collection, cookie[1], now)
                   = <<[status_code |-> 401,
                        detail |-> "couldn't validate credentials"]>>
             /\ ~read_all_tickets_as(cookie)
             /\ ~delete_one_user_as(cookie)
             /\ NotAuthenticated("my-tickets", cookie) => last'.status = 401
             /\ Refused("delete-my-account-post-confirm", cookie)
                   => last'.status = 401
      ]_vars

(* alice logged in and deleted her account; GET /my-tickets with her       *)
(* unexpired token has been answered 401.                                  *)
C14_Witness ==
    /\ last.op = "my-tickets"
    /\ last.status = 401
    /\ \E t \in tokens :
          /\ last.req[1] = Bearer(t)
          /\ t.sub = <<Alice>>
          /\ now <= t.exp
          /\ ~Registered(user_collection, Alice)

----------------------------------------------------------------------------
(* C15: a create-ticket, cancel-one, cancel-all or delete-account request   *)
(* that arrives without the cookie, with a token of invalid signature or    *)
(* with an expired token is answered 401.                                   *)
C15_ProtectedRequestWithoutValidTokenIs401 ==
    [][ \A op \in {"create-ticket", "cancel-one-ticket-post-confirm",
                  "cancel-every-ticket-post-confirm",
                  "delete-my-account-post-confirm"},
           cookie \in Cookies :
          ( /\ IF cookie = None THEN TRUE
               ELSE \/ cookie[1].jwt.sig # "HS256:SECRET_KEY"
                    \/ cookie[1].jwt.exp < now
            /\ last'.op = op
            /\ Refused(op, cookie) )
          => last'.status = 401
      ]_vars

----------------------------------------------------------------------------
(* The first record with this login_id exists and its stored hash verifies *)
(* the password.                                                           *)
CredentialsVerify(users, login_id, password) ==
    \E i \in DOMAIN users :
        /\ IsUserAt(users, login_id, i)
        /\ users[i].hashed_password = <<"bcrypt", password>>

(* C16: POST /token answers with a token, and POST /login_result sets the   *)
(* cookie with a token, exactly when a user with the login_id exists and    *)
(* the password verifies against the stored hash; the token's subject is    *)
(* the login_id; otherwise the answer is 401 with no token and no cookie.   *)
(* Neither changes the user store or the ticket store.                      *)
C16_LoginYieldsTokenIffCredentialsVerify ==
    [][ \A login_id \in LoginIds, password \in Passwords \cup {WrongPassword} :
          /\ token_post(login_id, password)
             => /\ StoresUnchanged
                /\ IF CredentialsVerify(user_collection, login_id, password)
                   THEN /\ last'.status = 200
                        /\ last'.req[2] # None
                        /\ last'.req[2][1].token_type = "bearer"
                        /\ last'.req[2][1].access_token.sub = <<login_id>>
                        /\ last'.req[2][1].access_token.sig = "HS256:SECRET_KEY"
                        /\ tokens' = tokens \cup {last'.req[2][1].access_token}
                   ELSE /\ last'.status = 401
                        /\ last'.req[2] = None
                        /\ tokens' = tokens
          /\ login_result(login_id, password)
             => /\ StoresUnchanged
                /\ IF CredentialsVerify(user_collection, login_id, password)
                   THEN /\ last'.status = 302
                        /\ last'.req[2] # None
                        /\ last'.req[2][1].scheme = "Bearer "
                        /\ last'.req[2][1].jwt.sub = <<login_id>>
                        /\ last'.req[2][1].jwt.sig = "HS256:SECRET_KEY"
                        /\ tokens' = tokens \cup {last'.req[2][1].jwt}
                   ELSE /\ last'.status = 401
                        /\ last'.req[2] = None
                        /\ tokens' = tokens
      ]_vars

(* bob is registered too and the clock has advanced; alice has logged in   *)
(* with her password and has been sent the cookie.                         *)
C16_Witness ==
    /\ last.op = "login_result"
    /\ last.status = 302
    /\ last.req[1] = Alice
    /\ last.req[2] # None
    /\ last.req[2][1].jwt \in tokens
    /\ last.req[2][1].jwt.sub = <<Alice>>
    /\ Registered(user_collection, Bob)
    /\ now > 0

----------------------------------------------------------------------------
(* C17: logout changes neither store and revokes nothing: the tokens issued *)
(* stay issued, and after any step, a logout included, every issued token   *)
(* whose expiry the clock has not passed and whose subject has a record in  *)
(* the user store still resolves to the first record of that subject.       *)
C17_LogoutRevokesNothing ==
    [][ /\ \A cookie \in Cookies :
             logout(cookie)
             => /\ UNCHANGED <<user_collection, ticket_collection,
                               inflight_insert, inflight_inc, tokens, now>>
                /\ cookie # None
                   => get_current_user_by_token(user_collection', cookie[1], now')
                        = get_current_user_by_token(user_collection, cookie[1], now)
        /\ \A t \in tokens :
             /\ t \in tokens'
             /\ (now' <= t.exp /\ Registered(user_collection', t.sub[1]))
                => \E i \in DOMAIN user_collection' :
                      /\ IsUserAt(user_collection', t.sub[1], i)
                      /\ get_current_user_by_token(user_collection',
                                                   Bearer(t)[1], now')
                            = <<user_collection'[i]>>
      ]_vars

(* alice has logged out presenting her token; the clock has advanced since *)
(* the token was issued, has not passed its expiry, and the token still    *)
(* resolves to alice.                                                      *)
C17_Witness ==
    /\ last.op = "logout"
    /\ last.req[1] # None
    /\ last.req[1][1].jwt \in tokens
    /\ last.req[1][1].jwt.sub = <<Alice>>
    /\ last.req[1][1].jwt.exp = ACCESS_TOKEN_EXPIRE_MINUTES
    /\ 0 < now /\ now <= last.req[1][1].jwt.exp
    /\ Resolves(last.req[1])
    /\ CurrentUser(last.req[1]).login_id = Alice

----------------------------------------------------------------------------
(* C18: the expiry of a token is the issue time plus the ttl for every ttl  *)
(* supplied, a ttl of zero included, and the issue time plus 15 minutes     *)
(* when none is supplied; a token of the login endpoints expires 10 minutes *)
(* after its issue.                                                         *)
C18_ExpiryIsIssueTimePlusTtl ==
    [][ /\ \A sub \in LoginIds, expires_delta \in Ttls :
             issue(sub, expires_delta)
             => /\ last'.req[3].sub = <<sub>>
                /\ last'.req[3].exp = IF expires_delta = None
                                      THEN now + 15
                                      ELSE now + expires_delta[1]
        /\ \A login_id \in LoginIds, password \in Passwords :
             /\ (token_post(login_id, password) /\ last'.status = 200)
                => last'.req[2][1].access_token.exp = now + 10
             /\ (login_result(login_id, password) /\ last'.status = 302)
                => last'.req[2][1].jwt.exp = now + 10
      ]_vars

----------------------------------------------------------------------------
(* The documents of coll whose field is not value, in store order. *)
Others(coll, field, value) == SelectSeq(coll, LAMBDA d : d[field] # value)

(* C19: after a delete-account request of an authenticated user the user    *)
(* store has no record with that login_id and the ticket store no ticket of *)
(* that owner, the records and tickets of the other users are as before,    *)
(* and a token of the deleted user no longer resolves.                      *)
C19_DeleteAccountRemovesUserAndTickets ==
    [][ last'.op = "delete-my-account-post-confirm" =>
        \A cookie \in Cookies :
          (Resolves(cookie) /\ delete_one_user_as(cookie))
          => LET login_id == CurrentUser(cookie).login_id
             IN  /\ ~Registered(user_collection', login_id)
                 /\ Others(ticket_collection', "owner_login_id", login_id)
                       = ticket_collection'
                 /\ Others(user_collection', "login_id", login_id)
                       = Others(user_collection, "login_id", login_id)
                 /\ Others(ticket_collection', "owner_login_id", login_id)
                       = Others(ticket_collection, "owner_login_id", login_id)
                 /\ \A t \in tokens' :
                       t.sub = <<login_id>>
                       => get_current_user_by_token(user_collection',
                                                    Bearer(t)[1], now') = None
      ]_vars

----------------------------------------------------------------------------
(* C20: GET /my-tickets of an authenticated user answers with the tickets   *)
(* whose owner_login_id is that user, in store order, under the keys        *)
(* "Ticket 1" .. "Ticket N", N their number, and with no other key; when    *)
(* the user holds no ticket it answers with the mapping of the one key      *)
(* "message".  No store changes.                                            *)
C20_MyTicketsListsExactlyOwnTickets ==
    [][ last'.op = "my-tickets" =>
        \A authorization \in Cookies :
          (Resolves(authorization) /\ read_all_tickets_as(authorization))
          => LET login_id == CurrentUser(authorization).login_id
                 mine == SelectSeq(ticket_collection,
                                   LAMBDA d : d.owner_login_id = login_id)
                 body == last'.req[2][1]
             IN  /\ last'.status = 200
                 /\ StoresUnchanged
                 /\ IF Len(mine) = 0
                    THEN /\ DOMAIN body = {"message"}
                         /\ body["message"] = "You don't have any tickets!"
                    ELSE /\ DOMAIN body = {"Ticket " \o ToString(i) :
                                              i \in 1..Len(mine)}
                         /\ \A i \in 1..Len(mine) :
                               body["Ticket " \o ToString(i)] = mine[i]
      ]_vars

(* alice and bob hold one ticket each, bob's stored first; alice's         *)
(* GET /my-tickets has been answered with her ticket alone as "Ticket 1".  *)
C20_Witness ==
    /\ last.op = "my-tickets"
    /\ last.status = 200
    /\ last.req[1][1].jwt.sub = <<Alice>>
    /\ Len(ticket_collection) = 2
    /\ ticket_collection[1].owner_login_id = Bob
    /\ ticket_collection[2].owner_login_id = Alice
    /\ DOMAIN last.req[2][1] = {"Ticket 1"}
    /\ last.req[2][1]["Ticket 1"] = ticket_collection[2]

----------------------------------------------------------------------------
(* The user store holds one document, login_id's, with this mileage. *)
OnlyUser(users, login_id, mileage) ==
    /\ Len(users) = 1
    /\ users[1].login_id = login_id
    /\ users[1].mileage = mileage

(* C21: the scenario, each request sent once the one before has been        *)
(* answered.  From empty stores POST /create-user for alice is answered     *)
(* with the redirect, and the login with her credentials that follows      *)
(* obtains a token; with that token, alice the one stored user with no      *)
(* ticket and mileage 0, the booking SEA->LAX on 2024-06-01 is accepted and *)
(* leaves her mileage at 100 and the one ticket stored; from there a second *)
(* booking on 2024-06-01 is answered 409 and changes nothing, and the       *)
(* cancel-one for 2024-06-01 leaves her mileage at 0 and no ticket stored.  *)
C21_Scenario ==
    [][ /\ ( /\ user_collection = <<>>
             /\ inflight_insert = EmptyBag
             /\ create_one_user(AliceForm) )
           => last'.status = 302
        /\ ( /\ last.op = "create-user"
             /\ last.status = 302
             /\ last.req[1] = Alice
             /\ login_result(Alice, "pw") )
           => last'.status = 302
        /\ \A cookie \in Cookies :
             (Resolves(cookie) /\ CurrentUser(cookie).login_id = Alice)
             => /\ ( /\ OnlyUser(user_collection, Alice, 0)
                     /\ ticket_collection = <<>>
                     /\ create_one_ticket_as(cookie, SeaLaxOn(Day1)) )
                   => /\ last'.status = 302
                      /\ OnlyUser(user_collection', Alice, 100)
                      /\ ticket_collection' = <<TicketInDB(SeaLaxOn(Day1), Alice)>>
                /\ ( /\ OnlyUser(user_collection, Alice, 100)
                     /\ ticket_collection = <<TicketInDB(SeaLaxOn(Day1), Alice)>>
                     /\ create_one_ticket_as(cookie, SeaLaxOn(Day1)) )
                   => /\ last'.status = 409
                      /\ StoresUnchanged
                /\ ( /\ ticket_collection = <<TicketInDB(SeaLaxOn(Day1), Alice)>>
                     /\ last.op = "create-ticket"
                     /\ cancel_one_ticket_as(cookie, Day1) )
                   => /\ last'.status = 302
                      /\ OnlyUser(user_collection', Alice, 0)
                      /\ ticket_collection' = <<>>
      ]_vars

----------------------------------------------------------------------------
(* An $inc on login_id's mileage has been started and not carried out. *)
CreditPending(pending, login_id) ==
    \E update \in BagToSet(pending) : update.login_id = login_id

(* C22: the ticket insert and the mileage credit of a booking take effect   *)
(* together.  When a create-ticket request is answered with the redirect    *)
(* the stored mileage of its user has been raised by 100 and no $inc on     *)
(* that user is left for later; when a cancel-every-ticket request is       *)
(* answered its user holds no ticket, has mileage 0, and no $inc on that    *)
(* user is left that could land after the reset.                            *)
C22_CreditTakesEffectWithTheInsert ==
    [][ /\ (last'.op = "create-ticket" /\ last'.status = 302)
           => /\ OnlyMileageMoved(user_collection, user_collection',
                                  last'.req[1], 100)
              /\ ~CreditPending(inflight_inc', last'.req[1])
        /\ (last'.op = "cancel-every-ticket-post-confirm" /\ last'.status = 302)
           => /\ \A i \in DOMAIN ticket_collection' :
                    ticket_collection'[i].owner_login_id # last'.req[1]
              /\ \A i \in DOMAIN user_collection' :
                    IsUserAt(user_collection', last'.req[1], i)
                    => user_collection'[i].mileage = 0
              /\ ~CreditPending(inflight_inc', last'.req[1])
      ]_vars

----------------------------------------------------------------------------
(* The stored mileage of login_id (of its first document). *)
MileageOf(users, login_id) == find_one(users, [login_id |-> login_id])[1].mileage

(* C23: create-ticket requests of one user for different dates do not get   *)
(* in each other's way, however their steps interleave.  The validator of a *)
(* request passes whenever the user holds no stored ticket on the requested *)
(* date, whatever other bookings are under way; the insert that follows     *)
(* adds the ticket, answers with the redirect and hands the store one $inc  *)
(* of 100 on the user; and every $inc the store carries out adds exactly    *)
(* 100 to the mileage stored at that moment, so that two credits leave it   *)
(* 200 higher and none is lost.                                             *)
C23_ConcurrentBookingsBothCredited ==
    [][ \A frame \in BagToSet(running) :
          LET login_id == frame.current_user.login_id
          IN  /\ ( /\ create_ticket_ticket_is_valid(frame)
                   /\ ~Holds(ticket_collection, login_id,
                             frame.store_ticket.departure_date) )
                 => /\ BagIn([frame EXCEPT !.pc = "insert_one"], running')
                    /\ last'.status # 409
              /\ create_ticket_insert_one(frame)
                 => /\ ticket_collection' =
                          Append(ticket_collection, frame.store_ticket)
                    /\ last'.status = 302
                    /\ inflight_inc' = inflight_inc (+)
                          SetToBag({[login_id |-> login_id, inc |-> 100]})
                    /\ user_collection' = user_collection
        /\ \A update \in BagToSet(inflight_inc) :
             (store_update_one(update) /\ Registered(user_collection, update.login_id))
             => /\ update.inc = 100
                /\ MileageOf(user_collection', update.login_id)
                      = MileageOf(user_collection, update.login_id) + 100
                /\ OnlyMileageMoved(user_collection, user_collection',
                                    update.login_id, 100)
      ]_vars

(* alice's two bookings, one for each date, have been answered and stored   *)
(* and both credits have been carried out: her mileage is 200.              *)
C23_Witness ==
    /\ last.op = "store update_one"
    /\ running = EmptyBag
    /\ inflight_inc = EmptyBag
    /\ Holds(ticket_collection, Alice, Day1)
    /\ Holds(ticket_collection, Alice, Day2)
    /\ Len(ticket_collection) = 2
    /\ Registered(user_collection, Alice)
    /\ MileageOf(user_collection, Alice) = 200

----------------------------------------------------------------------------
(* The number of stored tickets of login_id departing on date. *)
HeldOn(tickets, login_id, date) ==
    Len(find(tickets, [owner_login_id |-> login_id, departure_date |-> date]))

(* C24: the validator's scan and the insert are two steps, and the insert   *)
(* is not conditional on the store.  The insert of a create-ticket request  *)
(* whose validator has passed is carried out even when the user has by then *)
(* a stored ticket on that date (a concurrent request's): it adds a second  *)
(* ticket with the same owner and date, answers with the redirect and hands *)
(* the store one more $inc of 100 on the user.                              *)
C24_SameDateBookingsBothInserted ==
    [][ \A frame \in BagToSet(running) :
          LET login_id == frame.current_user.login_id
              date == frame.store_ticket.departure_date
          IN  ( /\ create_ticket_insert_one(frame)
                /\ Holds(ticket_collection, login_id, date) )
              => /\ ticket_collection' =
                       Append(ticket_collection, frame.store_ticket)
                 /\ HeldOn(ticket_collection', login_id, date)
                       = HeldOn(ticket_collection, login_id, date) + 1
                 /\ last'.status = 302
                 /\ inflight_inc' = inflight_inc (+)
                       SetToBag({[login_id |-> login_id, inc |-> 100]})
      ]_vars

(* Two tickets of alice for 2024-06-01 are stored, both bookings have been  *)
(* answered and credited: her mileage is 200.                               *)
C24_Witness ==
    /\ HeldOn(ticket_collection, Alice, Day1) = 2
    /\ running = EmptyBag
    /\ inflight_inc = EmptyBag
    /\ Registered(user_collection, Alice)
    /\ MileageOf(user_collection, Alice) = 200

----------------------------------------------------------------------------
(* C25: the lookups of a registration and its insert are separate steps,    *)
(* and the insert is not conditional on the store.  A create-user request   *)
(* whose login_id lookup found nothing and whose email lookup finds nothing *)
(* is answered with the redirect and starts the insert of its record, also  *)
(* when a record with that login_id has been stored since its lookup and    *)
(* also when the insert of a record with that login_id or email has been    *)
(* started by another request and not yet carried out.                      *)
C25_RegistrationsBothInserted ==
    [][ \A frame \in BagToSet(running) :
          LET new_user == frame.new_user
          IN  ( /\ create_user_is_duplicate_email(frame)
                /\ ~frame.duplicate_login_id
                /\ ~is_duplicate_email(user_collection, new_user.email) )
              => /\ last'.status = 302
                 /\ inflight_insert' = inflight_insert (+)
                       SetToBag({[login_id |-> new_user.login_id,
                                  email |-> new_user.email,
                                  hashed_password |->
                                      get_hashed_password(new_user.password),
                                  mileage |-> 0]})
      ]_vars

(* Every registration has been answered and every insert carried out; the   *)
(* user store holds two records with login_id bob and different emails, and *)
(* two records with the email a@x.com and different login_ids.              *)
C25_Witness ==
    /\ running = EmptyBag
    /\ inflight_insert = EmptyBag
    /\ \E i, j \in DOMAIN user_collection :
          /\ user_collection[i].login_id = Bob
          /\ user_collection[j].login_id = Bob
          /\ user_collection[i].email # user_collection[j].email
    /\ \E i, j \in DOMAIN user_collection :
          /\ user_collection[i].email = "a@x.com"
          /\ user_collection[j].email = "a@x.com"
          /\ user_collection[i].login_id # user_collection[j].login_id

----------------------------------------------------------------------------
(* The handlers that write to the stores on behalf of the current user. *)
ProtectedOps == {"create-ticket", "cancel-one-ticket-post-confirm",
                 "cancel-every-ticket-post-confirm",
                 "delete-my-account-post-confirm"}

(* The request carries no token, or a token that is not signed with the    *)
(* key, names no subject, has expired, or names a login_id of no stored    *)
(* user.                                                                   *)
FailsAuthentication(cookie) ==
    IF cookie = None THEN TRUE
    ELSE LET token == cookie[1].jwt
         IN  \/ token.sig # "HS256:SECRET_KEY"
             \/ token.sub = None
             \/ token.exp < now
             \/ ~Registered(user_collection, token.sub[1])

(* C26: a request to create-ticket, cancel-one, cancel-all or               *)
(* delete-account whose token is missing, invalid, expired or names no      *)
(* stored user never reaches the handler's store calls: no step is the      *)
(* handler acting for such a cookie, and a request that is refused (401, or *)
(* 500 without the cookie) leaves the user store, the ticket store, the     *)
(* pending store operations and the issued tokens as they were.             *)
C26_FailedAuthenticationChangesNothing ==
    [][ /\ \A cookie \in Cookies :
             FailsAuthentication(cookie)
             => /\ \A form \in TicketForms : ~create_one_ticket_as(cookie, form)
                /\ \A cancel_date \in Dates :
                      ~cancel_one_ticket_as(cookie, cancel_date)
                /\ ~cancel_all_tickets_as(cookie)
                /\ ~delete_one_user_as(cookie)
                /\ \A op \in ProtectedOps :
                      Refused(op, cookie) => (StoresUnchanged /\ tokens' = tokens)
        /\ (last'.op \in ProtectedOps /\ last'.status \in {401, 500})
           => (StoresUnchanged /\ tokens' = tokens)
        /\ (last'.op \in ProtectedOps /\ ~StoresUnchanged)
           => \E cookie \in Cookies : ~FailsAuthentication(cookie)
      ]_vars

(* alice holds a ticket and her mileage of 100; the clock is past the       *)
(* expiry of every token she was issued, so no cookie a client can send     *)
(* authenticates; a cancel-one request that carried a cookie has been       *)
(* answered 401, and the ticket and the mileage are still there.            *)
C26_Witness ==
    /\ last.op = "cancel-one-ticket-post-confirm"
    /\ last.status = 401
    /\ tokens # {}
    /\ \A t \in tokens : t.exp < now
    /\ \A cookie \in Cookies : FailsAuthentication(cookie)
    /\ Holds(ticket_collection, Alice, Day1)
    /\ Registered(user_collection, Alice)
    /\ MileageOf(user_collection, Alice) = 100

----------------------------------------------------------------------------
(* C27: with requests handled one at a time, whenever a request has been    *)
(* answered the mileage of every stored user is 100 times the number of     *)
(* stored tickets with that user as owner.                                  *)
C27_MileageIsHundredPerTicket ==
    last.op \notin {"-", "store insert_one", "store update_one"}
    => \A i \in DOMAIN user_collection :
          user_collection[i].mileage =
             100 * Len(find(ticket_collection,
                            [owner_login_id |-> user_collection[i].login_id]))

----------------------------------------------------------------------------
(* C28: in every reachable state, those reached by interleaving a           *)
(* delete-account with a create-ticket of the same user included, the owner *)
(* of every stored ticket is the login_id of a stored user.                 *)
C28_NoOrphanTickets ==
    \A i \in DOMAIN ticket_collection :
        Registered(user_collection, ticket_collection[i].owner_login_id)

----------------------------------------------------------------------------
(* C29: a token issued to an account that has since been deleted does not   *)
(* authenticate again.  When the record of a new registration enters a user *)
(* store that holds no record with its login_id, every token issued earlier *)
(* for that login_id was issued to a deleted account, and resolving it      *)
(* still returns no user.                                                   *)
C29_TokenOfDeletedAccountStaysDead ==
    [][ \A doc \in BagToSet(inflight_insert) :
          ( /\ store_insert_one(doc)
            /\ ~Registered(user_collection, doc.login_id) )
          => \A t \in tokens :
                t.sub = <<doc.login_id>>
                => get_current_user_by_token(user_collection', Bearer(t)[1], now')
                      = None
      ]_vars

----------------------------------------------------------------------------
(* C30: users are isolated from each other.  A create-ticket, cancel-one,   *)
(* cancel-all or delete-account request that acts for user A leaves every   *)
(* ticket of another owner and every user record of another login_id as it  *)
(* was, and hands the store no operation on another user; the $inc a        *)
(* booking of A started changes, when the store carries it out, no record   *)
(* of another login_id and no ticket.                                       *)
C30_UsersIsolated ==
    [][ /\ (last'.op \in ProtectedOps /\ last'.status \notin {401, 500})
           => LET A == last'.req[1]
              IN  /\ Others(user_collection', "login_id", A)
                        = Others(user_collection, "login_id", A)
                  /\ Others(ticket_collection', "owner_login_id", A)
                        = Others(ticket_collection, "owner_login_id", A)
                  /\ inflight_insert' = inflight_insert
                  /\ \A update \in BagToSet(inflight_inc') \cup BagToSet(inflight_inc) :
                        update.login_id # A
                        => CopiesIn(update, inflight_inc')
                              = CopiesIn(update, inflight_inc)
        /\ last'.op = "store update_one"
           => \A update \in BagToSet(inflight_inc) :
                 store_update_one(update)
                 => /\ Others(user_collection', "login_id", update.login_id)
                          = Others(user_collection, "login_id", update.login_id)
                    /\ ticket_collection' = ticket_collection
      ]_vars

(* bob holds a ticket for 2024-06-01 and its credit, alice holds no ticket  *)
(* on that date; alice's cancel-one for 2024-06-01 has been answered with   *)
(* the redirect, and bob's ticket and bob's mileage are as they were.       *)
C30_Witness ==
    /\ last.op = "cancel-one-ticket-post-confirm"
    /\ last.status = 302
    /\ last.req = <<Alice, Day1>>
    /\ Holds(ticket_collection, Bob, Day1)
    /\ Registered(user_collection, Bob)
    /\ MileageOf(user_collection, Bob) = 100
    /\ Registered(user_collection, Alice)
    /\ MileageOf(user_collection, Alice) = -100

----------------------------------------------------------------------------
(* C31: a registration is durable when it is reported.  When create-user is *)
(* answered with the redirect for login_id L the user store holds a record  *)
(* with login_id L; the request handled next, if it is a login with L's     *)
(* credentials, obtains a token, and if it is a registration with the same  *)
(* login_id or the same email, is answered 409.                             *)
C31_RegistrationDurableOnReturn ==
    [][ /\ (last'.op = "create-user" /\ last'.status = 302)
           => Registered(user_collection', last'.req[1])
        /\ (last.op = "create-user" /\ last.status = 302)
           => /\ login_result(last.req[1], "pw") => last'.status = 302
              /\ \A form \in UserForms :
                    ( /\ form.login_id = last.req[1] \/ form.email = last.req[2]
                      /\ create_one_user(form) )
                    => last'.status = 409
      ]_vars

----------------------------------------------------------------------------
(* C32: a ticket is stored or it is not.  A step that changes the ticket    *)
(* store either appends one document, and then it is a create-ticket        *)
(* answered with the redirect, the document carries the requester as owner  *)
(* and passes the validator against the store as it was; or it takes        *)
(* documents of one owner out, and then it is a cancel-one (one document),  *)
(* a cancel-all or a delete-account (all documents of the owner) of that    *)
(* owner.  In both cases every document that stays is the document it was,  *)
(* in the same order: no field of a stored ticket is ever rewritten.        *)
C32_TicketIsBookedOrAbsent ==
    [][ ticket_collection' # ticket_collection
        => \/ /\ last'.op = "create-ticket"
              /\ last'.status = 302
              /\ Len(ticket_collection') = Len(ticket_collection) + 1
              /\ SubSeq(ticket_collection', 1, Len(ticket_collection))
                    = ticket_collection
              /\ LET ticket == ticket_collection'[Len(ticket_collection')]
                 IN  /\ ticket.owner_login_id = last'.req[1]
                     /\ ticket.starting_point # ticket.ending_point
                     /\ ~Holds(ticket_collection, ticket.owner_login_id,
                               ticket.departure_date)
           \/ /\ last'.op = "cancel-one-ticket-post-confirm"
              /\ last'.status = 302
              /\ \E i \in DOMAIN ticket_collection :
                    /\ ticket_collection[i].owner_login_id = last'.req[1]
                    /\ ticket_collection[i].departure_date = last'.req[2]
                    /\ ticket_collection' = Without(ticket_collection, i)
           \/ /\ last'.op \in {"cancel-every-ticket-post-confirm",
                               "delete-my-account-post-confirm"}
              /\ last'.status = 302
              /\ ticket_collection' =
                    Others(ticket_collection, "owner_login_id", last'.req[1])
      ]_vars

(* alice has booked both dates and cancelled 2024-06-01: that ticket is     *)
(* gone, the ticket for 2024-06-02 is stored with the fields it was booked  *)
(* with.                                                                    *)
C32_Witness ==
    /\ last.op = "cancel-one-ticket-post-confirm"
    /\ last.status = 302
    /\ last.req = <<Alice, Day1>>
    /\ ticket_collection = <<TicketInDB(SeaLaxOn(Day2), Alice)>>

----------------------------------------------------------------------------
(* C33: delete-account does not roll back.  When the tickets of the user    *)
(* have been deleted and the mileage reset, and the deletion of the user    *)
(* record then fails, the request is answered with an error and the state   *)
(* it leaves has the user's record still stored, with mileage 0, and no     *)
(* ticket of the user; the records and tickets of the other users are as    *)
(* they were.                                                               *)
C33_DeleteAccountHasNoRollback ==
    [][ \A cookie \in Cookies :
          (Resolves(cookie) /\ delete_one_user_raising_as(cookie))
          => LET A == CurrentUser(cookie).login_id
             IN  /\ last'.status = 500
                 /\ Registered(user_collection', A)
                 /\ MileageOf(user_collection', A) = 0
                 /\ user_collection' =
                       update_one_set(user_collection, [login_id |-> A], 0)
                 /\ HeldOn(ticket_collection', A, Day1) = 0
                 /\ HeldOn(ticket_collection', A, Day2) = 0
                 /\ ticket_collection' =
                       Others(ticket_collection, "owner_login_id", A)
      ]_vars

(* alice had booked (the credit of her booking is still pending) when her   *)
(* delete-account request failed at the user record: she is still          *)
(* registered, with mileage 0 and no ticket.                                *)
C33_Witness ==
    /\ last.op = "delete-my-account-post-confirm"
    /\ last.status = 500
    /\ last.req = <<Alice>>
    /\ CreditPending(inflight_inc, Alice)
    /\ Registered(user_collection, Alice)
    /\ MileageOf(user_collection, Alice) = 0
    /\ \A i \in DOMAIN ticket_collection :
          ticket_collection[i].owner_login_id # Alice

====
